---- MODULE Spec2Model ----
(***************************************************************************)
(* State-machine model of src/managers.py: BigQueryService (one table and  *)
(* its single-slot cache of the last website's scraped urls), GCSService   *)
(* (blob names under a bucket prefix) and GCPPersistencyManager, the       *)
(* facade over them.                                                       *)
(*                                                                         *)
(* A url is a sequence of one-character strings, so that the website regex *)
(* of extract_website_from_url is computed and not assumed.  A DataFrame   *)
(* column is a sequence of values; its index is the default RangeIndex     *)
(* 0..n-1 that to_dataframe() produces.                                    *)
(***************************************************************************)
EXTENDS Integers, Sequences, FiniteSets, TLC

VARIABLES
    table,                  \* rows of the BigQuery scrap table, in insertion order
    cached_scraped_urls,    \* BigQueryService.cached_scraped_urls: <<>> is None, else <<[website, data]>>
    urls_storage_service,   \* GCPPersistencyManager.urls_storage_service: "None" or "GCSService"
    urls_bucket,            \* blob names held by the urls (secondary) storage service
    classifiers_bucket,     \* blob names held by the classifiers (primary) storage service
    last,                   \* what the last completed operation was given, returned and did
    log,                    \* the operations of a recorded run, oldest first
    pc,                     \* concurrent callers: statement each caller is at
    website_arg,            \* concurrent callers: the website each caller asks for
    bigquery_job,           \* concurrent callers: local variable bigquery_job (the fetched frame)
    returned                \* concurrent callers: the value the last call returned

vars == <<table, cached_scraped_urls, urls_storage_service, urls_bucket,
          classifiers_bucket, last, log, pc, website_arg, bigquery_job, returned>>

seqvars == <<table, cached_scraped_urls, urls_storage_service, urls_bucket,
             classifiers_bucket, last, log>>

concvars == <<pc, website_arg, bigquery_job, returned>>

-----------------------------------------------------------------------------
(* Bounds of the model *)

\* most rows the table holds
MaxRows == 2
\* longest batch handed to filter_scraped_urls
MaxBatch == 3
\* longest batch handed to save and delete
MaxSave == 2
\* operations in a recorded run
MaxLog == 4

-----------------------------------------------------------------------------
(* Urls *)

WordChars == {"a", "b", "c", "d", "h", "x", "1", "2"}

\* "h://a.c/1"
UrlA1 == <<"h", ":", "/", "/", "a", ".", "c", "/", "1">>
\* "a.c/2"
UrlA2 == <<"a", ".", "c", "/", "2">>
\* "b.d/1"
UrlB1 == <<"b", ".", "d", "/", "1">>
\* "h://x" : no dotted host
UrlBad == <<"h", ":", "/", "/", "x">>

Urls == {UrlA1, UrlA2, UrlB1, UrlBad}
GoodUrls == {UrlA1, UrlA2, UrlB1}
\* the urls of the records handed to save, and those among them that make a row
RecordUrls == {UrlA1, UrlB1, UrlBad}
RowUrls == {UrlA1, UrlB1}

SiteA == <<"a", ".", "c">>
SiteB == <<"b", ".", "d">>
Websites == {SiteA, SiteB}

IsWord(ch) == ch \in WordChars

\* last position of the run of \w characters that starts at i
RECURSIVE RunEnd(_, _)
RunEnd(s, i) ==
    IF i < Len(s) /\ IsWord(s[i + 1]) THEN RunEnd(s, i + 1) ELSE i

\* e ends a \w+ run: consume further "\.\w+" as long as they follow (greedy)
RECURSIVE GroupsEnd(_, _)
GroupsEnd(s, e) ==
    IF e + 2 <= Len(s) /\ s[e + 1] = "." /\ IsWord(s[e + 2])
    THEN GroupsEnd(s, RunEnd(s, e + 2))
    ELSE e

\* end of the match of (\w+\.)+\w+ anchored at i, 0 when there is none
MatchEnd(s, i) ==
    IF IsWord(s[i])
    THEN LET e == RunEnd(s, i)
             f == GroupsEnd(s, e)
         IN  IF f > e THEN f ELSE 0
    ELSE 0

\* re.search(website_regex, url): the leftmost match, <<>> for None
re_search(url) ==
    LET starts == {i \in 1..Len(url) : MatchEnd(url, i) > 0}
    IN  IF starts = {} THEN <<>>
        ELSE LET i == CHOOSE j \in starts : \A k \in starts : j <= k
             IN  SubSeq(url, i, MatchEnd(url, i))

\* raised: the LookupError of line 25
extract_website(url) ==
    LET regex_match == re_search(url)
    IN  IF regex_match # <<>>
        THEN [raised |-> FALSE, value |-> regex_match]
        ELSE [raised |-> TRUE, value |-> <<>>]

\* extract_website, tabulated once over the urls of the model
extract_website_table == [url \in Urls |-> extract_website(url)]

extract_website_from_url(url) == extract_website_table[url]

-----------------------------------------------------------------------------
(* Python values and pandas *)

PyStr(s) == [type |-> "str", s |-> s, n |-> 0]
PyInt(n) == [type |-> "int", s |-> <<>>, n |-> n]

\* a membership test against the values of the column
SeriesContainsValue(key, column) ==
    \E i \in 1..Len(column) : PyStr(column[i]) = key

\* key in series: pandas tests the index labels of the Series, which for a
\* frame built by to_dataframe() are the integers 0..n-1
SeriesContains(key, column) ==
    \E i \in 0..(Len(column) - 1) : PyInt(i) = key

\* the values of a column, as a set
Values(column) == {column[i] : i \in 1..Len(column)}

-----------------------------------------------------------------------------
(* BigQueryService *)

None == <<>>

\* get_scraped_urls.sql: the urls of the rows of one website
QueryScrapedUrls(tbl, website) ==
    LET OfSite(row) == row.website = website
        rows == SelectSeq(tbl, OfSite)
    IN  [i \in 1..Len(rows) |-> rows[i].url]

\* delete_scraped_urls.sql: remove every row whose url is in the list
QueryDelete(tbl, urls) ==
    LET Kept(row) == row.url \notin Values(urls)
    IN  SelectSeq(tbl, Kept)

\* insert_rows_from_dataframe: rows are appended, nothing is deduplicated
InsertRows(tbl, database_rows) == tbl \o database_rows

\* the lookup with the cache test left out: every call queries
get_scraped_urls_uncached(cache, tbl, website) ==
    LET new == <<[website |-> website, data |-> QueryScrapedUrls(tbl, website)]>>
    IN  [data |-> new[1].data, cache |-> new, queried |-> <<website>>]

\* data: the frame returned; cache: cached_scraped_urls afterwards;
\* queried: the websites a remote query was issued for
get_scraped_urls_by_website(cache, tbl, website) ==
    IF cache # None /\ cache[1].website = website
    THEN [data |-> cache[1].data, cache |-> cache, queried |-> <<>>]
    ELSE LET new == <<[website |-> website, data |-> QueryScrapedUrls(tbl, website)]>>
         IN  [data |-> new[1].data, cache |-> new, queried |-> <<website>>]

-----------------------------------------------------------------------------
(* GCSService *)

bucket_prefix == <<"dev", "scraped_data">>
run_id == "default"

StartsWith(name, prefix) ==
    Len(name) >= Len(prefix) /\ SubSeq(name, 1, Len(prefix)) = prefix

\* list_files(prefix): names under bucket_prefix/prefix
list_files(bucket, prefix) ==
    {name \in bucket : StartsWith(name, bucket_prefix \o prefix)}

\* the blob name get_byte_stream reads
blob_name(filepath) ==
    IF StartsWith(filepath, bucket_prefix) THEN filepath ELSE bucket_prefix \o filepath

TempNames == {"u1", "u2", "u3", "u4"}
TempPaths == {<<run_id, "u1">>, bucket_prefix \o <<run_id, "u2">>}

-----------------------------------------------------------------------------
(* GCPPersistencyManager: the pure parts *)

filter_website_scraped_urls(cache, tbl, website, website_urls) ==
    LET r == get_scraped_urls_by_website(cache, tbl, website)
        NotIn(url) == ~SeriesContains(PyStr(url), r.data)
    IN  [filtered_urls |-> SelectSeq(website_urls, NotIn),
         cache |-> r.cache, queried |-> r.queried]

\* the group built without the test of the website
website_urls_all(urls, website) == urls

\* line 297: the urls of the batch that belong to website, in batch order
website_urls_of(urls, website) ==
    LET OfSite(url) == extract_website_from_url(url).value = website
    IN  SelectSeq(urls, OfSite)

\* the while loop of filter_scraped_urls, order being the order in which
\* set.pop() hands out the websites
RECURSIVE filter_loop(_, _, _, _)
filter_loop(order, urls, tbl, acc) ==
    IF order = <<>> THEN acc
    ELSE LET website == Head(order)
             website_urls == website_urls_of(urls, website)
             r == filter_website_scraped_urls(acc.cache, tbl, website, website_urls)
         IN  filter_loop(Tail(order), urls, tbl,
                 [filtered_urls |-> acc.filtered_urls \o r.filtered_urls,
                  cache |-> r.cache,
                  queried |-> acc.queried \o r.queried,
                  groups |-> Append(acc.groups, website_urls)])

\* line 290: the set of websites of the batch; raised when any url has none
urls_website(urls) ==
    LET ex == [i \in 1..Len(urls) |-> extract_website_from_url(urls[i])]
    IN  [raised |-> \E i \in 1..Len(urls) : ex[i].raised,
         value |-> {ex[i].value : i \in {j \in 1..Len(urls) : ~ex[j].raised}}]

\* the orders in which a set can be popped empty
PopOrders(S) ==
    {f \in [1..Cardinality(S) -> S] : \A i, j \in 1..Cardinality(S) : f[i] = f[j] => i = j}

extract_database_fields(scraped_data) ==
    LET w == extract_website_from_url(scraped_data)
    IN  [raised |-> w.raised, value |-> [url |-> scraped_data, website |-> w.value]]

\* the rows of the records that have a website, the others skipped silently
database_rows_skipping(url_data) ==
    LET HasWebsite(url) == ~extract_website_from_url(url).raised
        kept == SelectSeq(url_data, HasWebsite)
    IN  [raised |-> FALSE,
         value |-> [i \in 1..Len(kept) |-> extract_database_fields(kept[i]).value]]

\* line 335: the list comprehension stops at the first record that raises
database_rows_of(url_data) ==
    LET ex == [i \in 1..Len(url_data) |-> extract_database_fields(url_data[i])]
    IN  [raised |-> \E i \in 1..Len(url_data) : ex[i].raised,
         value |-> [i \in 1..Len(url_data) |-> ex[i].value]]

\* getattr(service, name) of a manager attribute that may be None
attribute_error(service) == service = "None"

-----------------------------------------------------------------------------
(* Batches *)

SeqsUpTo(S, n) == UNION {[1..k -> S] : k \in 0..n}

\* every batch of the two urls that can be on record, batches with a second
\* url of website a.c, and two batches holding a url without a website
FilterBatches ==
    SeqsUpTo(RowUrls, MaxBatch)
        \cup {<<UrlA1, UrlA2>>, <<UrlA2, UrlA1>>, <<UrlA1, UrlA2, UrlB1>>,
              <<UrlA1, UrlB1, UrlA2>>, <<UrlA2, UrlB1, UrlA1>>,
              <<UrlBad>>, <<UrlA1, UrlBad>>}
SaveBatches == SeqsUpTo(RecordUrls, MaxSave)
DeleteBatches == SeqsUpTo(RowUrls, MaxSave)

-----------------------------------------------------------------------------
(* Operations *)

Blank ==
    [op |-> "", arg |-> <<>>, ret |-> <<>>, bool |-> FALSE, err |-> "",
     queried |-> <<>>, groups |-> <<>>, refilter |-> FALSE, appended |-> FALSE,
     blob |-> <<>>]

\* the batch is what the filter_scraped_urls just before returned
IsOutputOfLast(urls) ==
    last.op = "filter_scraped_urls" /\ last.err = "" /\ urls = last.ret

\* BigQueryService.get_scraped_urls_by_website called on the store
call_get_scraped_urls_by_website(website) ==
    LET r == get_scraped_urls_by_website(cached_scraped_urls, table, website)
    IN  /\ cached_scraped_urls' = r.cache
        /\ last' = [Blank EXCEPT !.op = "get_scraped_urls_by_website",
                                 !.arg = <<website>>, !.ret = r.data,
                                 !.queried = r.queried]
        /\ UNCHANGED <<table, urls_storage_service, urls_bucket, classifiers_bucket>>
        /\ UNCHANGED concvars

\* order: one of PopOrders(urls_website(urls).value)
filter_scraped_urls(urls, order) ==
    LET ws == urls_website(urls)
    IN  IF ws.raised
        THEN /\ last' = [Blank EXCEPT !.op = "filter_scraped_urls", !.arg = urls,
                                      !.err = "LookupError"]
             /\ UNCHANGED <<table, cached_scraped_urls, urls_storage_service,
                            urls_bucket, classifiers_bucket>>
             /\ UNCHANGED concvars
        ELSE /\ LET r == filter_loop(order, urls, table,
                             [filtered_urls |-> <<>>, cache |-> cached_scraped_urls,
                              queried |-> <<>>, groups |-> <<>>])
                IN  /\ cached_scraped_urls' = r.cache
                    /\ last' = [Blank EXCEPT !.op = "filter_scraped_urls", !.arg = urls,
                                             !.ret = r.filtered_urls,
                                             !.queried = r.queried,
                                             !.groups = r.groups,
                                             !.refilter = IsOutputOfLast(urls)]
             /\ UNCHANGED <<table, urls_storage_service, urls_bucket, classifiers_bucket>>
             /\ UNCHANGED concvars

was_scraped(url) ==
    LET url_website == extract_website_from_url(url)
    IN  IF url_website.raised
        THEN /\ last' = [Blank EXCEPT !.op = "was_scraped", !.arg = <<url>>,
                                      !.err = "LookupError"]
             /\ UNCHANGED <<table, cached_scraped_urls, urls_storage_service,
                            urls_bucket, classifiers_bucket>>
             /\ UNCHANGED concvars
        ELSE LET r == filter_website_scraped_urls(cached_scraped_urls, table,
                                                  url_website.value, <<url>>)
             IN  /\ cached_scraped_urls' = r.cache
                 /\ last' = [Blank EXCEPT !.op = "was_scraped", !.arg = <<url>>,
                                          !.bool = (Len(r.filtered_urls) = 0),
                                          !.queried = r.queried]
                 /\ UNCHANGED <<table, urls_storage_service, urls_bucket,
                                classifiers_bucket>>
                 /\ UNCHANGED concvars

save(url_data) ==
    LET database_rows == database_rows_of(url_data)
    IN  IF database_rows.raised
        THEN /\ last' = [Blank EXCEPT !.op = "save", !.arg = url_data,
                                      !.err = "LookupError"]
             /\ UNCHANGED <<table, cached_scraped_urls, urls_storage_service,
                            urls_bucket, classifiers_bucket>>
             /\ UNCHANGED concvars
        ELSE /\ Len(table) + Len(url_data) <= MaxRows
             /\ table' = InsertRows(table, database_rows.value)
             /\ last' = [Blank EXCEPT !.op = "save", !.arg = url_data,
                                      !.appended = TRUE]
             /\ UNCHANGED <<cached_scraped_urls, urls_storage_service, urls_bucket,
                            classifiers_bucket>>
             /\ UNCHANGED concvars

delete(urls) ==
    /\ table' = QueryDelete(table, urls)
    /\ last' = [Blank EXCEPT !.op = "delete", !.arg = urls]
    /\ UNCHANGED <<cached_scraped_urls, urls_storage_service, urls_bucket,
                   classifiers_bucket>>
    /\ UNCHANGED concvars

store_temp_urls(destination_filename) ==
    LET destination == <<run_id, destination_filename>>
    IN  IF attribute_error(urls_storage_service)
        THEN /\ last' = [Blank EXCEPT !.op = "store_temp_urls", !.arg = <<destination>>,
                                      !.err = "AttributeError"]
             /\ UNCHANGED <<table, cached_scraped_urls, urls_storage_service,
                            urls_bucket, classifiers_bucket>>
             /\ UNCHANGED concvars
        ELSE /\ urls_bucket' = urls_bucket \cup {bucket_prefix \o destination}
             /\ last' = [Blank EXCEPT !.op = "store_temp_urls", !.arg = <<destination>>,
                                      !.blob = <<"urls.save_file">>]
             /\ UNCHANGED <<table, cached_scraped_urls, urls_storage_service,
                            classifiers_bucket>>
             /\ UNCHANGED concvars

list_temp_urls ==
    /\ IF attribute_error(urls_storage_service)
       THEN last' = [Blank EXCEPT !.op = "list_temp_urls", !.err = "AttributeError"]
       ELSE last' = [Blank EXCEPT !.op = "list_temp_urls",
                                  !.ret = list_files(urls_bucket, <<run_id>>),
                                  !.blob = <<"urls.list_files">>]
    /\ UNCHANGED <<table, cached_scraped_urls, urls_storage_service, urls_bucket,
                   classifiers_bucket>>
    /\ UNCHANGED concvars

\* a blob that does not exist makes get_blob return None, and line 209 raises
get_temp_file(filename) ==
    /\ IF attribute_error(urls_storage_service)
       THEN last' = [Blank EXCEPT !.op = "get_temp_file", !.arg = <<filename>>,
                                  !.err = "AttributeError"]
       ELSE IF blob_name(filename) \in urls_bucket
            THEN last' = [Blank EXCEPT !.op = "get_temp_file", !.arg = <<filename>>,
                                       !.ret = {blob_name(filename)},
                                       !.blob = <<"urls.get_byte_stream">>]
            ELSE last' = [Blank EXCEPT !.op = "get_temp_file", !.arg = <<filename>>,
                                       !.err = "AttributeError",
                                       !.blob = <<"urls.get_byte_stream">>]
    /\ UNCHANGED <<table, cached_scraped_urls, urls_storage_service, urls_bucket,
                   classifiers_bucket>>
    /\ UNCHANGED concvars

list_classifiers ==
    /\ last' = [Blank EXCEPT !.op = "list_classifiers",
                             !.ret = list_files(classifiers_bucket, <<"classifiers">>),
                             !.blob = <<"classifiers.list_files">>]
    /\ UNCHANGED <<table, cached_scraped_urls, urls_storage_service, urls_bucket,
                   classifiers_bucket>>
    /\ UNCHANGED concvars

-----------------------------------------------------------------------------
(* The manager that get_persistency_manager builds, used by one caller *)

InitCallers ==
    /\ pc = [c \in {1, 2} |-> "idle"]
    /\ website_arg = [c \in {1, 2} |-> SiteA]
    /\ bigquery_job = [c \in {1, 2} |-> <<>>]
    /\ returned = [c \in {1, 2} |-> <<>>]

InitBuckets ==
    /\ urls_bucket = {}
    /\ classifiers_bucket = {bucket_prefix \o <<"classifiers", "m1">>,
                             bucket_prefix \o <<"other", "f">>}

Init ==
    /\ table = <<>>
    /\ cached_scraped_urls = None
    /\ urls_storage_service = "None"
    /\ InitBuckets
    /\ last = Blank
    /\ log = <<>>
    /\ InitCallers

Next ==
    \/ \E w \in Websites : call_get_scraped_urls_by_website(w) /\ UNCHANGED log
    \/ \E urls \in FilterBatches :
           \E order \in PopOrders(urls_website(urls).value) :
               filter_scraped_urls(urls, order) /\ UNCHANGED log
    \/ \E url \in Urls : was_scraped(url) /\ UNCHANGED log
    \/ \E url_data \in SaveBatches : save(url_data) /\ UNCHANGED log
    \/ \E urls \in DeleteBatches : delete(urls) /\ UNCHANGED log

Spec == Init /\ [][Next]_vars

-----------------------------------------------------------------------------
(* The temp-file operations, on a manager built with or without a urls    *)
(* storage service                                                         *)

InitFiles ==
    /\ table = <<>>
    /\ cached_scraped_urls = None
    /\ urls_storage_service \in {"None", "GCSService"}
    /\ InitBuckets
    /\ last = Blank
    /\ log = <<>>
    /\ InitCallers

NextFiles ==
    \/ \E d \in TempNames : store_temp_urls(d) /\ UNCHANGED log
    \/ list_temp_urls /\ UNCHANGED log
    \/ \E f \in TempPaths : get_temp_file(f) /\ UNCHANGED log
    \/ list_classifiers /\ UNCHANGED log

SpecFiles == InitFiles /\ [][NextFiles]_vars

-----------------------------------------------------------------------------
(* A recorded run: one-url operations on a fresh manager, each appended to *)
(* log                                                                     *)

NextRun ==
    \/ \E w \in Websites :
           Len(log) < MaxLog /\ call_get_scraped_urls_by_website(w)
           /\ log' = Append(log, last')
    \/ \E url \in Urls :
           Len(log) < MaxLog /\ was_scraped(url) /\ log' = Append(log, last')
    \/ \E url \in RecordUrls :
           Len(log) < MaxLog /\ save(<<url>>) /\ log' = Append(log, last')
    \/ \E url \in RowUrls :
           Len(log) < MaxLog /\ delete(<<url>>) /\ log' = Append(log, last')

SpecRun == Init /\ [][NextRun]_vars

-----------------------------------------------------------------------------
(* Two callers inside get_scraped_urls_by_website of one store, no lock,   *)
(* one statement at a time                                                 *)

Callers == {1, 2}

Tables == SeqsUpTo({extract_database_fields(url).value : url \in RowUrls}, MaxRows)

InitConc ==
    /\ table \in Tables
    /\ cached_scraped_urls = None
    /\ urls_storage_service = "None"
    /\ InitBuckets
    /\ last = Blank
    /\ log = <<>>
    /\ pc = [c \in Callers |-> "idle"]
    /\ website_arg \in [Callers -> Websites]
    /\ bigquery_job = [c \in Callers |-> <<>>]
    /\ returned = [c \in Callers |-> <<>>]

\* the caller enters get_scraped_urls_by_website(website_arg[c])
Enter(c) ==
    /\ pc[c] = "idle"
    /\ pc' = [pc EXCEPT ![c] = "L161"]
    /\ UNCHANGED <<website_arg, bigquery_job, returned>>
    /\ UNCHANGED seqvars

\* line 161: the test of the cached website
L161(c) ==
    /\ pc[c] = "L161"
    /\ IF cached_scraped_urls # None /\ cached_scraped_urls[1].website = website_arg[c]
       THEN pc' = [pc EXCEPT ![c] = "L162"]
       ELSE pc' = [pc EXCEPT ![c] = "L167"]
    /\ UNCHANGED <<website_arg, bigquery_job, returned>>
    /\ UNCHANGED seqvars

\* line 162: return self.cached_scraped_urls["data"], read again
L162(c) ==
    /\ pc[c] = "L162"
    /\ returned' = [returned EXCEPT ![c] = cached_scraped_urls[1].data]
    /\ pc' = [pc EXCEPT ![c] = "done"]
    /\ UNCHANGED <<website_arg, bigquery_job>>
    /\ UNCHANGED seqvars

\* lines 163-167: the remote query for the caller's website
L167(c) ==
    /\ pc[c] = "L167"
    /\ bigquery_job' = [bigquery_job EXCEPT ![c] = QueryScrapedUrls(table, website_arg[c])]
    /\ pc' = [pc EXCEPT ![c] = "L168"]
    /\ UNCHANGED <<website_arg, returned>>
    /\ UNCHANGED seqvars

\* line 168: the cache entry is replaced
L168(c) ==
    /\ pc[c] = "L168"
    /\ cached_scraped_urls' = <<[website |-> website_arg[c], data |-> bigquery_job[c]]>>
    /\ pc' = [pc EXCEPT ![c] = "L169"]
    /\ UNCHANGED <<website_arg, bigquery_job, returned>>
    /\ UNCHANGED <<table, urls_storage_service, urls_bucket, classifiers_bucket, last, log>>

\* line 169: return self.cached_scraped_urls["data"], read from the shared field
L169(c) ==
    /\ pc[c] = "L169"
    /\ returned' = [returned EXCEPT ![c] = cached_scraped_urls[1].data]
    /\ pc' = [pc EXCEPT ![c] = "done"]
    /\ UNCHANGED <<website_arg, bigquery_job>>
    /\ UNCHANGED seqvars

\* the caller has its result and may call again
Leave(c) ==
    /\ pc[c] = "done"
    /\ pc' = [pc EXCEPT ![c] = "idle"]
    /\ UNCHANGED <<website_arg, bigquery_job, returned>>
    /\ UNCHANGED seqvars

NextConc ==
    \/ \E c \in Callers : Enter(c)
    \/ \E c \in Callers : L161(c)
    \/ \E c \in Callers : L162(c)
    \/ \E c \in Callers : L167(c)
    \/ \E c \in Callers : L168(c)
    \/ \E c \in Callers : L169(c)
    \/ \E c \in Callers : Leave(c)

SpecConc == InitConc /\ [][NextConc]_vars

-----------------------------------------------------------------------------
(* Properties *)

Count(seq, x) == Cardinality({i \in DOMAIN seq : seq[i] = x})

SiteOf(url) == extract_website_from_url(url).value

OnRecord(url) == \E i \in DOMAIN table : table[i].url = url

IsKnownUrls(e, w) == e.op = "get_scraped_urls_by_website" /\ e.arg = <<w>>

RECURSIVE TotalQueries(_)
TotalQueries(entries) ==
    IF entries = <<>> THEN 0
    ELSE Len(Head(entries).queried) + TotalQueries(Tail(entries))

RECURSIVE QueriesFor(_, _)
QueriesFor(entries, w) ==
    IF entries = <<>> THEN 0
    ELSE Count(Head(entries).queried, w) + QueriesFor(Tail(entries), w)

\* C1: whenever get_scraped_urls_by_website(w) returns, hit or miss, the urls
\* it returns are exactly the urls a direct query of the table for w gives
\* at that instant.
C1_CacheEqualsDirectQuery ==
    last.op = "get_scraped_urls_by_website"
        => Values(last.ret) = Values(QueryScrapedUrls(table, last.arg[1]))

\* C2: of two callers inside get_scraped_urls_by_website for different
\* websites, each one that has returned holds the urls of the website it
\* asked for.
C2_EachCallerGetsItsWebsite ==
    \A c \in Callers :
        (pc[c] = "done" /\ website_arg[1] # website_arg[2])
            => Values(returned[c]) = Values(QueryScrapedUrls(table, website_arg[c]))

\* C3: was_scraped(u) returns true whenever u has been saved and not deleted
\* since, that is whenever a row with url u is on record.
C3_SavedUrlWasScraped ==
    (last.op = "was_scraped" /\ last.err = "" /\ OnRecord(last.arg[1]))
        => last.bool

C5_TwoQueriesWithOtherBetween ==
    \A a, b \in Websites :
        /\ (Len(log) = 2 /\ IsKnownUrls(log[1], a) /\ IsKnownUrls(log[2], a))
               => TotalQueries(log) = 1
        /\ (a # b /\ Len(log) = 3 /\ IsKnownUrls(log[1], a) /\ IsKnownUrls(log[2], b)
                /\ IsKnownUrls(log[3], a))
               => TotalQueries(log) = 2

\* C5 amended: on a fresh store two consecutive lookups of website a issue
\* one remote query (the second is a cache hit), and a, b, a issue three
\* remote queries in total, two of them for a.
C5_ThreeQueriesWithOtherBetween ==
    \A a, b \in Websites :
        /\ (Len(log) = 2 /\ IsKnownUrls(log[1], a) /\ IsKnownUrls(log[2], a))
               => (TotalQueries(log) = 1 /\ log[2].queried = <<>>)
        /\ (a # b /\ Len(log) = 3 /\ IsKnownUrls(log[1], a) /\ IsKnownUrls(log[2], b)
                /\ IsKnownUrls(log[3], a))
               => (TotalQueries(log) = 3 /\ QueriesFor(log, a) = 2)

C5_Witness ==
    /\ Len(log) = 3
    /\ IsKnownUrls(log[1], SiteA) /\ IsKnownUrls(log[2], SiteB) /\ IsKnownUrls(log[3], SiteA)
    /\ TotalQueries(log) = 3

\* C6: a url of the batch is returned by filter_scraped_urls iff its value is
\* not among the urls on record for its website, and the returned urls of
\* one website keep their order in the batch.
C6_UnseenIffNotOnRecord ==
    (last.op = "filter_scraped_urls" /\ last.err = "")
        => /\ \A i \in DOMAIN last.arg :
                  (last.arg[i] \in Values(last.ret))
                      <=> (last.arg[i] \notin
                              Values(QueryScrapedUrls(table, SiteOf(last.arg[i]))))
           /\ \A w \in Websites :
                  LET OfSite(url) == SiteOf(url) = w
                      Unseen(url) == url \in Values(last.ret)
                  IN  SelectSeq(last.ret, OfSite)
                          = SelectSeq(SelectSeq(last.arg, OfSite), Unseen)

\* C7: the groups filter_scraped_urls builds hold every url of the batch
\* exactly as often as the batch does, no url is in two groups, the urls of
\* one website are contiguous in the result, and the result holds only urls
\* of the batch.
C7_GroupsPartitionBatch ==
    (last.op = "filter_scraped_urls" /\ last.err = "")
        => LET groups == last.groups
               places == UNION {{<<g, k>> : k \in DOMAIN groups[g]} : g \in DOMAIN groups}
           IN  /\ \A u \in Urls :
                      Cardinality({p \in places : groups[p[1]][p[2]] = u})
                          = Count(last.arg, u)
               /\ \A g, h \in DOMAIN groups :
                      g # h => Values(groups[g]) \cap Values(groups[h]) = {}
               /\ \A i, j, k \in DOMAIN last.ret :
                      (i < j /\ j < k /\ SiteOf(last.ret[i]) = SiteOf(last.ret[k]))
                          => SiteOf(last.ret[j]) = SiteOf(last.ret[i])
               /\ Values(last.ret) \subseteq Values(last.arg)

C7_Witness ==
    /\ last.op = "filter_scraped_urls"
    /\ last.arg = <<UrlA1, UrlB1, UrlA1>>
    /\ last.groups = <<<<UrlA1, UrlA1>>, <<UrlB1>>>>
    /\ last.ret = <<UrlA1, UrlA1, UrlB1>>

\* C8: a save whose batch holds a url without a website raises the
\* LookupError, never reaches the store's save and leaves the table as it
\* was, wherever the url stands in the batch.
C8_BadBatchRejected ==
    [][ (last'.op = "save"
            /\ \E i \in DOMAIN last'.arg : extract_website_from_url(last'.arg[i]).raised)
        => (table' = table /\ last'.err = "LookupError" /\ ~last'.appended) ]_vars

C8_Witness ==
    /\ last.op = "save"
    /\ last.arg = <<UrlA1, UrlBad>>
    /\ last.err = "LookupError"
    /\ table # <<>>

\* C9: on a manager built without a urls storage service every temp-file
\* operation fails with the NoSecondaryStoreConfigured error and performs no
\* blob-store operation, and list_classifiers lists the classifiers.
C9_DedicatedErrorWithoutUrlsStore ==
    urls_storage_service = "None"
        => /\ last.op \in {"store_temp_urls", "list_temp_urls", "get_temp_file"}
                  => (last.err = "NoSecondaryStoreConfigured" /\ last.blob = <<>>)
           /\ last.op = "list_classifiers"
                  => (last.err = "" /\ last.blob = <<"classifiers.list_files">>)

\* C10: filtering the result of filter_scraped_urls again, nothing saved or
\* deleted in between, returns the same set of urls.
C10_FilterIdempotentOnOutput ==
    (last.op = "filter_scraped_urls" /\ last.err = "" /\ last.refilter)
        => Values(last.ret) = Values(last.arg)

C10_Witness ==
    /\ last.op = "filter_scraped_urls" /\ last.refilter
    /\ Values(last.arg) = {UrlA1, UrlB1}
    /\ OnRecord(UrlA1)
    /\ Len(last.queried) = 1

====
